---- MODULE Spec2Model ----
(***************************************************************************)
(* PixelFort: content-addressable photo storage.                           *)
(*                                                                         *)
(* The model covers the photos and users tables (api/models.py), the       *)
(* storage directory /app/storage/photos, the request handlers             *)
(* upload_photo, delete_photo, delete_user, update_user, register,         *)
(* create_photo, get_photo and download_photo of api/main.py and the       *)
(* batch script api/cleanup_orphans.py.  Handlers                          *)
(* are independent workers that share only the database and the            *)
(* directory; every database statement and every file-system call is one   *)
(* atomic step, and steps of different workers interleave freely.  The     *)
(* handlers that only read answer in one step: download_photo serves the   *)
(* file as it is on disk at that moment.                                   *)
(*                                                                         *)
(* Two uploads overlap when the application runs several worker processes; *)
(* delete_photo runs in the thread pool and cleanup_orphans.py is a        *)
(* process of its own, so both overlap an upload in any deployment.        *)
(*                                                                         *)
(* The Photo constructor is taken to accept the keyword arguments that     *)
(* upload_photo passes (the columns of schemas.PhotoResponse); any         *)
(* exception raised between building the row and db.commit() is the        *)
(* failure branch of UploadCommit.                                         *)
(***************************************************************************)
EXTENDS Integers, FiniteSets, Sequences, TLC

\* ------------------------------------------------------------------ bounds
NumUsers == 2
NumContents == 2
NumHandlers == 2
MaxOps == 3
MaxSeqOps == 3
MaxFaults == 1
MaxUserOps == 2
MaxLiveOps == 2
MaxReadOps == 2

Users == 1..NumUsers
Contents == 1..NumContents
Handlers == 1..NumHandlers

\* every id table users can hand out: the initial users and one per request
AllUsers == 1..(NumUsers + MaxUserOps)

\* the e-mail addresses and user names the clients send
Emails == {"a@example.com", "b@example.com", "c@example.com"}
Usernames == {"alice", "bob", "carol"}

None == "None"

\* ------------------------------------------------------------- pure helpers
\* Strings are modelled as sequences of tokens, so that building a file name
\* and taking its stem are real string operations.

\* hashlib.sha256(contents).hexdigest(): injective on the modelled contents
sha256(contents) == <<"sha256", contents>>

Hashes == {sha256(b) : b \in Contents}

\* the uploaded file names the clients send; None is a missing filename
UploadNames == {<<"test", ".jpg">>, <<"test", ".png">>, <<"photo">>, <<None>>}

\* file.filename or "unknown"
original_name(name) == IF name = <<None>> THEN <<"unknown">> ELSE name

\* Path(name).suffix: the last dot-component, "" when there is none
suffix(name) == IF Len(name) > 1 THEN name[Len(name)] ELSE ""

\* Path(original_name).suffix or ".jpg"
extension(name) == IF suffix(name) = "" THEN ".jpg" ELSE suffix(name)

Extensions == {extension(original_name(n)) : n \in UploadNames}

\* f"{file_hash}{extension}"
filename(file_hash, ext) == file_hash \o <<ext>>

\* f"{file_hash}.thumb.jpg"
thumbnail_filename(file_hash) == file_hash \o <<".thumb", ".jpg">>

GitKeep == <<".gitkeep">>

NoFile == <<>>

\* every name a file of the storage directory can have
Files == {filename(h, e) : h \in Hashes, e \in Extensions}
           \cup {thumbnail_filename(h) : h \in Hashes} \cup {GitKeep}

\* Path.stem: the name without its last suffix
stem(f) == IF Len(f) > 1 THEN SubSeq(f, 1, Len(f) - 1) ELSE f

\* whether PIL can open the bytes as an image
IsImage(contents) == contents % 2 = 1

Max(S) == CHOOSE x \in S : \A y \in S : y <= x

\* ------------------------------------------------------------------- state
VARIABLES
    photos,         \* the rows of table photos (committed)
    disk,           \* /app/storage/photos: file name -> "none" | "partial" | "data"
    pc,             \* where each handler is in its request
    loc,            \* the local variables of each handler's request
    reply,          \* the response sent by the step that led to this state
    rpc,            \* where cleanup_orphaned_files is
    db_hashes,      \* its set of file hashes read from the database
    listing,        \* the directory entries its glob still has to yield
    deleted_count,  \* its counter
    rout,           \* how its last run ended
    nops,           \* operations started so far
    faults,         \* I/O and database faults injected so far
    stored_clean,   \* history: hashes whose row was stored with no file of that hash on disk
    scanned,        \* history: the directory entries the running cleanup listed
    users,          \* the rows of table users (committed), by id
    deleted_ids,    \* history: ids of the rows whose owner deleted them, file included
    email,          \* column email of table users, by id (None without a row)
    username        \* column username of table users, by id (None without a row)

vars == <<photos, disk, pc, loc, reply, rpc, db_hashes, listing, deleted_count,
          rout, nops, faults, stored_clean, scanned, users, deleted_ids,
          email, username>>

cleanupVars == <<rpc, db_hashes, listing, deleted_count, rout, scanned>>

NoLoc == [user |-> 0, contents |-> 0, file_hash |-> NoFile, file_path |-> NoFile,
          thumbnail_path |-> NoFile, width |-> None, photo_id |-> 0,
          written |-> FALSE, clean |-> FALSE,
          user_id |-> 0, email |-> None, username |-> None,
          old_email |-> None, old_username |-> None]

NoReply == [op |-> None, status |-> 0, id |-> 0, detail |-> None, req |-> NoLoc,
            body |-> {}]

Init ==
    /\ photos = {}
    /\ disk = [f \in Files |-> IF f = GitKeep THEN "data" ELSE "none"]
    /\ pc = [p \in Handlers |-> "idle"]
    /\ loc = [p \in Handlers |-> NoLoc]
    /\ reply = NoReply
    /\ rpc = "idle"
    /\ db_hashes = {}
    /\ listing = {}
    /\ deleted_count = 0
    /\ rout = None
    /\ nops = 0
    /\ faults = 0
    /\ stored_clean = {}
    /\ scanned = {}
    /\ users = Users
    /\ deleted_ids = {}
    /\ email = [v \in AllUsers |-> IF v = 1 THEN "a@example.com"
                                  ELSE IF v = 2 THEN "b@example.com" ELSE None]
    /\ username = [v \in AllUsers |-> IF v = 1 THEN "alice"
                                     ELSE IF v = 2 THEN "bob" ELSE None]

\* an incoming request goes to the first idle handler
free(p) == pc[p] = "idle" /\ \A q \in Handlers : q < p => pc[q] # "idle"

\* no request and no cleanup run is in progress
Quiescent == rpc = "idle" /\ \A p \in Handlers : pc[p] = "idle"

\* a request that carries no credentials
Anonymous == 0

\* variant of get_current_user that lets every request through
get_current_user_open(u) == TRUE

\* Depends(get_current_user) hands the handler the User row of the caller:
\* only a principal whose row exists gets a request through
get_current_user(u) == u \in users

\* one more operation may start
StartOp(limit) == /\ nops < limit
                  /\ nops' = nops + 1

\* handler p answers its request req and becomes idle
Reply(p, op, status, id, detail, req) ==
    /\ reply' = [op |-> op, status |-> status, id |-> id, detail |-> detail, req |-> req,
                 body |-> {}]
    /\ pc' = [pc EXCEPT ![p] = "idle"]
    /\ loc' = [loc EXCEPT ![p] = NoLoc]

\* handler p goes on to step next with locals l
Goto(p, next, l) ==
    /\ pc' = [pc EXCEPT ![p] = next]
    /\ loc' = [loc EXCEPT ![p] = l]
    /\ reply' = NoReply

Fault == /\ faults < MaxFaults
         /\ faults' = faults + 1

NoFault == UNCHANGED faults

\* ---------------------------------------------------------- upload_photo

\* db.query(Photo).filter(Photo.file_hash == file_hash).first()
find_by_hash(file_hash) == {r \in photos : r.file_hash = file_hash}

\* SQLite gives an INTEGER PRIMARY KEY the largest rowid in use plus one
next_id == IF photos = {} THEN 1 ELSE Max({r.id : r \in photos}) + 1

\* the files of the directory whose stem is the hash
blobs(file_hash) == {f \in Files : stem(f) = file_hash /\ disk[f] # "none"}

\* the locals named at lines 300-322
upload_locals(u, b, n) ==
    [NoLoc EXCEPT !.user = u, !.contents = b, !.file_hash = sha256(b),
                  !.file_path = filename(sha256(b), extension(original_name(n))),
                  !.thumbnail_path = thumbnail_filename(sha256(b)),
                  !.clean = (blobs(sha256(b)) = {})]

\* variant of UploadCheck without the lookup of lines 306-312
UploadCheckNoDedup(p, u, b, n) ==
    /\ free(p)
    /\ get_current_user(u)
    /\ Goto(p, "u_open", upload_locals(u, b, n))
    /\ UNCHANGED <<photos, disk, faults, stored_clean, users, email, username, deleted_ids>>
    /\ UNCHANGED cleanupVars

\* variant of UploadCheck that goes to the INSERT before the file is saved
UploadCheckInsertFirst(p, u, b, n) ==
    /\ free(p)
    /\ get_current_user(u)
    /\ LET existing_photo == find_by_hash(sha256(b))
       IN IF existing_photo # {}
          THEN Reply(p, "upload", 400, (CHOOSE r \in existing_photo : TRUE).id,
                     "File already exists", upload_locals(u, b, n))
          ELSE Goto(p, "u_commit", upload_locals(u, b, n))
    /\ UNCHANGED <<photos, disk, faults, stored_clean, users, email, username, deleted_ids>>
    /\ UNCHANGED cleanupVars

\* variant of UploadCheck that saves the file before it looks the hash up
UploadCheckWritesFirst(p, u, b, n) ==
    /\ free(p)
    /\ get_current_user(u)
    /\ LET existing_photo == find_by_hash(sha256(b))
       IN IF existing_photo # {}
          THEN /\ Reply(p, "upload", 400, (CHOOSE r \in existing_photo : TRUE).id,
                        "File already exists", upload_locals(u, b, n))
               /\ disk' = [disk EXCEPT ![upload_locals(u, b, n).file_path] = "data"]
          ELSE /\ Goto(p, "u_open", upload_locals(u, b, n))
               /\ UNCHANGED disk
    /\ UNCHANGED <<photos, faults, stored_clean, users, email, username, deleted_ids>>
    /\ UNCHANGED cleanupVars

\* lines 300-322: read the body, hash it, reject a known hash, name the files
UploadCheck(p, u, b, n) ==
    /\ free(p)
    /\ get_current_user(u)
    /\ LET existing_photo == find_by_hash(sha256(b))
       IN IF existing_photo # {}
          THEN Reply(p, "upload", 400, (CHOOSE r \in existing_photo : TRUE).id,
                     "File already exists", upload_locals(u, b, n))
          ELSE Goto(p, "u_open", upload_locals(u, b, n))
    /\ UNCHANGED <<photos, disk, faults, stored_clean, users, email, username, deleted_ids>>
    /\ UNCHANGED cleanupVars

\* line 330: open(file_path, "wb") creates or truncates the file
UploadOpen(p) ==
    /\ pc[p] = "u_open"
    /\ \/ /\ NoFault
          /\ disk' = [disk EXCEPT ![loc[p].file_path] = "partial"]
          /\ Goto(p, "u_write", loc[p])
       \/ /\ Fault
          /\ Reply(p, "upload", 500, 0, "OSError", loc[p])
          /\ UNCHANGED disk
    /\ UNCHANGED <<photos, nops, stored_clean, users, email, username, deleted_ids>>
    /\ UNCHANGED cleanupVars

\* variant of UploadWrite that swallows the error of a failed write
UploadWriteSwallowsError(p) ==
    /\ pc[p] = "u_write"
    /\ \/ /\ NoFault
          /\ disk' = [disk EXCEPT ![loc[p].file_path] = "data"]
          /\ Goto(p, "u_thumb", [loc[p] EXCEPT !.written = TRUE])
       \/ /\ Fault
          /\ Goto(p, "u_thumb", loc[p])
          /\ UNCHANGED disk
    /\ UNCHANGED <<photos, nops, stored_clean, users, email, username, deleted_ids>>
    /\ UNCHANGED cleanupVars

\* variant of UploadWrite that opens the file again after a failed write
UploadWriteRetries(p) ==
    /\ pc[p] = "u_write"
    /\ \/ /\ NoFault
          /\ disk' = [disk EXCEPT ![loc[p].file_path] = "data"]
          /\ Goto(p, "u_thumb", [loc[p] EXCEPT !.written = TRUE])
       \/ /\ Fault
          /\ Goto(p, "u_open", loc[p])
          /\ UNCHANGED disk
    /\ UNCHANGED <<photos, nops, stored_clean, users, email, username, deleted_ids>>
    /\ UNCHANGED cleanupVars

\* line 331 and the end of the with block: the bytes reach the file
UploadWrite(p) ==
    /\ pc[p] = "u_write"
    /\ \/ /\ NoFault
          /\ disk' = [disk EXCEPT ![loc[p].file_path] = "data"]
          /\ Goto(p, "u_thumb", [loc[p] EXCEPT !.written = TRUE])
       \/ /\ Fault
          /\ Reply(p, "upload", 500, 0, "OSError", loc[p])
          /\ UNCHANGED disk
    /\ UNCHANGED <<photos, nops, stored_clean, users, email, username, deleted_ids>>
    /\ UNCHANGED cleanupVars

\* Image.open(image_path) succeeds on a complete file holding an image
readable_image(p) == disk[loc[p].file_path] = "data" /\ IsImage(loc[p].contents)

\* variant of UploadThumbnail that lets the exception of a failed generation out
UploadThumbnailRaises(p) ==
    /\ pc[p] = "u_thumb"
    /\ \/ /\ NoFault
          /\ IF readable_image(p)
             THEN /\ disk' = [disk EXCEPT ![loc[p].thumbnail_path] = "data"]
                  /\ Goto(p, "u_exif", loc[p])
             ELSE /\ Reply(p, "upload", 500, 0, "UnidentifiedImageError", loc[p])
                  /\ UNCHANGED disk
       \/ /\ Fault
          /\ readable_image(p)
          /\ Reply(p, "upload", 500, 0, "OSError", loc[p])
          /\ UNCHANGED disk
    /\ UNCHANGED <<photos, nops, stored_clean, users, email, username, deleted_ids>>
    /\ UNCHANGED cleanupVars

\* lines 336-338 and image_utils.generate_thumbnail: every exception, of
\* Image.open or of img.save, gives False and the path becomes None
UploadThumbnail(p) ==
    /\ pc[p] = "u_thumb"
    /\ \/ /\ NoFault
          /\ IF readable_image(p)
             THEN /\ disk' = [disk EXCEPT ![loc[p].thumbnail_path] = "data"]
                  /\ Goto(p, "u_exif", loc[p])
             ELSE /\ Goto(p, "u_exif", [loc[p] EXCEPT !.thumbnail_path = NoFile])
                  /\ UNCHANGED disk
       \/ /\ Fault
          /\ readable_image(p)
          /\ Goto(p, "u_exif", [loc[p] EXCEPT !.thumbnail_path = NoFile])
          /\ UNCHANGED disk
    /\ UNCHANGED <<photos, nops, stored_clean, users, email, username, deleted_ids>>
    /\ UNCHANGED cleanupVars

\* line 341 and image_utils.extract_exif_data: no field is set when the open fails
UploadExif(p) ==
    /\ pc[p] = "u_exif"
    /\ Goto(p, "u_commit", [loc[p] EXCEPT !.width = IF readable_image(p) THEN "width" ELSE None])
    /\ UNCHANGED <<photos, disk, nops, faults, stored_clean, users, email, username, deleted_ids>>
    /\ UNCHANGED cleanupVars

\* variant of new_photo that files the row under another user
new_photo_other_owner(p) ==
    [id |-> next_id,
     filename |-> loc[p].file_path,
     file_hash |-> loc[p].file_hash,
     user_id |-> CHOOSE u \in Users : u # loc[p].user,
     thumbnail_path |-> loc[p].thumbnail_path,
     width |-> loc[p].width]

\* the row built at lines 344-362
new_photo(p) ==
    [id |-> next_id,
     filename |-> loc[p].file_path,
     file_hash |-> loc[p].file_hash,
     user_id |-> loc[p].user,
     thumbnail_path |-> loc[p].thumbnail_path,
     width |-> loc[p].width]

\* variant of unique_violation for a file_hash column without unique=True
no_unique_index(row) == FALSE

\* Photo.file_hash is unique=True: the INSERT of a second row with the hash fails
unique_violation(row) == find_by_hash(row.file_hash) # {}

\* variant of UploadCommit in which the request that loses the INSERT removes
\* the file it wrote
UploadCommitLoserUnlinks(p) ==
    /\ pc[p] = "u_commit"
    /\ \/ /\ NoFault
          /\ IF unique_violation(new_photo(p))
             THEN /\ Reply(p, "upload", 500, 0, "IntegrityError", loc[p])
                  /\ disk' = [disk EXCEPT ![loc[p].file_path] = "none"]
                  /\ UNCHANGED <<photos, stored_clean>>
             ELSE /\ photos' = photos \cup {new_photo(p)}
                  /\ stored_clean' = IF loc[p].clean
                                     THEN stored_clean \cup {loc[p].file_hash}
                                     ELSE stored_clean
                  /\ Reply(p, "upload", 201, next_id, "Created", loc[p])
                  /\ UNCHANGED disk
       \/ /\ Fault
          /\ Reply(p, "upload", 500, 0, "OperationalError", loc[p])
          /\ UNCHANGED <<photos, stored_clean, disk>>
    /\ UNCHANGED <<nops, users, email, username, deleted_ids>>
    /\ UNCHANGED cleanupVars

\* lines 344-370: build the row, INSERT, commit; no exception is caught
UploadCommit(p) ==
    /\ pc[p] = "u_commit"
    /\ \/ /\ NoFault
          /\ IF unique_violation(new_photo(p))
             THEN /\ Reply(p, "upload", 500, 0, "IntegrityError", loc[p])
                  /\ UNCHANGED <<photos, stored_clean>>
             ELSE /\ photos' = photos \cup {new_photo(p)}
                  /\ stored_clean' = IF loc[p].clean
                                     THEN stored_clean \cup {loc[p].file_hash}
                                     ELSE stored_clean
                  /\ Reply(p, "upload", 201, next_id, "Created", loc[p])
       \/ /\ Fault
          /\ Reply(p, "upload", 500, 0, "OperationalError", loc[p])
          /\ UNCHANGED <<photos, stored_clean>>
    /\ UNCHANGED <<disk, nops, users, email, username, deleted_ids>>
    /\ UNCHANGED cleanupVars

\* the statements of upload_photo after the lookup, in program order: open,
\* write, generate_thumbnail, extract_exif_data, INSERT and commit
upload_order == <<"u_open", "u_write", "u_thumb", "u_exif", "u_commit">>

\* the place of step l in upload_photo
upload_position(l) == CHOOSE i \in 1..Len(upload_order) : upload_order[i] = l

\* ---------------------------------------------------------- delete_photo

\* db.query(Photo).filter(Photo.id == photo_id).first()
find_by_id(photo_id) == {r \in photos : r.id = photo_id}

\* the ids a client asks for: every id in use and one that is not
RequestIds == {r.id : r \in photos} \cup {next_id}

\* variant of DeleteQuery without the ownership check of lines 458-462
DeleteQueryNoOwnerCheck(p, u, photo_id) ==
    /\ free(p)
    /\ get_current_user(u)
    /\ LET found == find_by_id(photo_id)
           req == [NoLoc EXCEPT !.user = u, !.photo_id = photo_id]
       IN IF found = {}
          THEN Reply(p, "delete", 404, photo_id, "not found", req)
          ELSE LET photo == CHOOSE r \in found : TRUE
               IN Goto(p, "d_commit", [req EXCEPT !.file_path = photo.filename,
                                                  !.file_hash = photo.file_hash])
    /\ UNCHANGED <<photos, disk, faults, stored_clean, users, email, username, deleted_ids>>
    /\ UNCHANGED cleanupVars

\* lines 449-472: look the row up, 404 when absent, 403 when not the owner's
DeleteQuery(p, u, photo_id) ==
    /\ free(p)
    /\ get_current_user(u)
    /\ LET found == find_by_id(photo_id)
           req == [NoLoc EXCEPT !.user = u, !.photo_id = photo_id]
       IN IF found = {}
          THEN Reply(p, "delete", 404, photo_id, "not found", req)
          ELSE LET photo == CHOOSE r \in found : TRUE
               IN IF photo.user_id # u
                  THEN Reply(p, "delete", 403, photo_id, "You can only delete your own photos", req)
                  ELSE Goto(p, "d_commit", [req EXCEPT !.file_path = photo.filename,
                                                        !.file_hash = photo.file_hash])
    /\ UNCHANGED <<photos, disk, faults, stored_clean, users, email, username, deleted_ids>>
    /\ UNCHANGED cleanupVars

\* lines 474-476: DELETE FROM photos WHERE id = ?, commit
DeleteCommit(p) ==
    /\ pc[p] = "d_commit"
    /\ \/ /\ NoFault
          /\ photos' = photos \ find_by_id(loc[p].photo_id)
          /\ stored_clean' = stored_clean \ {r.file_hash : r \in find_by_id(loc[p].photo_id)}
          /\ Goto(p, "d_unlink", loc[p])
       \/ /\ Fault
          /\ Reply(p, "delete", 500, loc[p].photo_id, "OperationalError", loc[p])
          /\ UNCHANGED <<photos, stored_clean>>
    /\ UNCHANGED <<disk, nops, users, email, username, deleted_ids>>
    /\ UNCHANGED cleanupVars

\* variant of DeleteUnlink without the file_path.exists() test of line 481
DeleteUnlinkMissingFails(p) ==
    /\ pc[p] = "d_unlink"
    /\ \/ /\ NoFault
          /\ disk' = [disk EXCEPT ![loc[p].file_path] = "none"]
          /\ deleted_ids' = IF disk[loc[p].file_path] = "none"
                            THEN deleted_ids
                            ELSE deleted_ids \cup {loc[p].photo_id}
          /\ IF disk[loc[p].file_path] = "none"
             THEN Reply(p, "delete", 500, loc[p].photo_id, "FileNotFoundError", loc[p])
             ELSE Reply(p, "delete", 204, loc[p].photo_id, "Deleted", loc[p])
       \/ /\ disk[loc[p].file_path] # "none"
          /\ Fault
          /\ Reply(p, "delete", 204, loc[p].photo_id, "Failed to delete file", loc[p])
          /\ UNCHANGED <<disk, deleted_ids>>
    /\ UNCHANGED <<photos, nops, stored_clean, users, email, username>>
    /\ UNCHANGED cleanupVars

\* variant of DeleteUnlink that lets the error of a failed unlink out
DeleteUnlinkRaises(p) ==
    /\ pc[p] = "d_unlink"
    /\ \/ /\ NoFault
          /\ disk' = [disk EXCEPT ![loc[p].file_path] = "none"]
          /\ deleted_ids' = IF disk[loc[p].file_path] = "none"
                            THEN deleted_ids
                            ELSE deleted_ids \cup {loc[p].photo_id}
          /\ Reply(p, "delete", 204, loc[p].photo_id,
                   IF disk[loc[p].file_path] = "none" THEN "File not found on disk" ELSE "Deleted",
                   loc[p])
       \/ /\ disk[loc[p].file_path] # "none"
          /\ Fault
          /\ Reply(p, "delete", 500, loc[p].photo_id, "Failed to delete file", loc[p])
          /\ UNCHANGED <<disk, deleted_ids>>
    /\ UNCHANGED <<photos, nops, stored_clean, users, email, username>>
    /\ UNCHANGED cleanupVars

\* lines 480-493: unlink the file if it is there; a failure is only logged
DeleteUnlink(p) ==
    /\ pc[p] = "d_unlink"
    /\ \/ /\ NoFault
          /\ disk' = [disk EXCEPT ![loc[p].file_path] = "none"]
          /\ deleted_ids' = IF disk[loc[p].file_path] = "none"
                            THEN deleted_ids
                            ELSE deleted_ids \cup {loc[p].photo_id}
          /\ Reply(p, "delete", 204, loc[p].photo_id,
                   IF disk[loc[p].file_path] = "none" THEN "File not found on disk" ELSE "Deleted",
                   loc[p])
       \/ /\ disk[loc[p].file_path] # "none"
          /\ Fault
          /\ Reply(p, "delete", 204, loc[p].photo_id, "Failed to delete file", loc[p])
          /\ UNCHANGED <<disk, deleted_ids>>
    /\ UNCHANGED <<photos, nops, stored_clean, users, email, username>>
    /\ UNCHANGED cleanupVars

\* ----------------------------------------------------------- delete_user

\* db.query(User).filter(User.id == user_id).first()
find_user(user_id) == {v \in users : v = user_id}

\* User.photos is cascade="all, delete-orphan": the rows the session deletes
\* together with the user
owned_photos(user_id) == {r \in photos : r.user_id = user_id}

\* lines 149-161: 403 for another account, 404 when the row is gone
DeleteUserQuery(p, u, user_id) ==
    /\ free(p)
    /\ get_current_user(u)
    /\ LET req == [NoLoc EXCEPT !.user = u]
       IN IF user_id # u
          THEN Reply(p, "delete_user", 403, user_id, "You can only delete your own account", req)
          ELSE IF find_user(user_id) = {}
               THEN Reply(p, "delete_user", 404, user_id, "not found", req)
               ELSE Goto(p, "du_commit", req)
    /\ UNCHANGED <<photos, disk, faults, stored_clean, users, email, username, deleted_ids>>
    /\ UNCHANGED cleanupVars

\* lines 163-166: DELETE the user's photos rows and the users row, commit;
\* no file is touched
DeleteUserCommit(p) ==
    /\ pc[p] = "du_commit"
    /\ \/ /\ NoFault
          /\ photos' = photos \ owned_photos(loc[p].user)
          /\ users' = users \ find_user(loc[p].user)
          /\ email' = [email EXCEPT ![loc[p].user] = None]
          /\ username' = [username EXCEPT ![loc[p].user] = None]
          /\ stored_clean' = stored_clean \ {r.file_hash : r \in owned_photos(loc[p].user)}
          /\ Reply(p, "delete_user", 204, loc[p].user, "Deleted", loc[p])
       \/ /\ Fault
          /\ Reply(p, "delete_user", 500, loc[p].user, "OperationalError", loc[p])
          /\ UNCHANGED <<photos, users, email, username, stored_clean>>
    /\ UNCHANGED <<disk, nops, deleted_ids>>
    /\ UNCHANGED cleanupVars

\* ---------------------------------------------------------------- register

\* db.query(User).filter(User.email == e).first()
find_by_email(e) == {v \in users : email[v] = e}

\* db.query(User).filter(User.username == n).first()
find_by_username(n) == {v \in users : username[v] = n}

\* SQLite gives an INTEGER PRIMARY KEY the largest rowid in use plus one
next_user_id == IF users = {} THEN 1 ELSE Max(users) + 1

\* User.email and User.username are unique=True: a statement that gives user
\* v the e-mail e or the name n of another row fails
user_unique_violation(v, e, n) ==
    \/ find_by_email(e) \ {v} # {}
    \/ find_by_username(n) \ {v} # {}

\* lines 563-568: no authentication; 400 when the e-mail is registered
RegisterEmail(p, e, n) ==
    /\ free(p)
    /\ LET req == [NoLoc EXCEPT !.email = e, !.username = n]
       IN IF find_by_email(e) # {}
          THEN Reply(p, "register", 400, 0, "Email already registered", req)
          ELSE Goto(p, "r_username", req)
    /\ UNCHANGED <<photos, disk, faults, stored_clean, users, email, username, deleted_ids>>
    /\ UNCHANGED cleanupVars

\* lines 570-575: 400 when the user name is taken
RegisterUsername(p) ==
    /\ pc[p] = "r_username"
    /\ IF find_by_username(loc[p].username) # {}
       THEN Reply(p, "register", 400, 0, "Username already taken", loc[p])
       ELSE Goto(p, "r_commit", loc[p])
    /\ UNCHANGED <<photos, disk, nops, faults, stored_clean, users, email, username, deleted_ids>>
    /\ UNCHANGED cleanupVars

\* lines 577-598: INSERT the user, commit, answer with a token; no exception
\* is caught
RegisterCommit(p) ==
    /\ pc[p] = "r_commit"
    /\ \/ /\ NoFault
          /\ IF user_unique_violation(next_user_id, loc[p].email, loc[p].username)
             THEN /\ Reply(p, "register", 500, 0, "IntegrityError", loc[p])
                  /\ UNCHANGED <<users, email, username>>
             ELSE /\ users' = users \cup {next_user_id}
                  /\ email' = [email EXCEPT ![next_user_id] = loc[p].email]
                  /\ username' = [username EXCEPT ![next_user_id] = loc[p].username]
                  /\ Reply(p, "register", 201, next_user_id, "Created", loc[p])
       \/ /\ Fault
          /\ Reply(p, "register", 500, 0, "OperationalError", loc[p])
          /\ UNCHANGED <<users, email, username>>
    /\ UNCHANGED <<photos, disk, nops, stored_clean, deleted_ids>>
    /\ UNCHANGED cleanupVars

\* ------------------------------------------------------------- update_user

\* the e-mail and user name of a PATCH body; None is a field left out
UpdateEmails == Emails \cup {None}
UpdateUsernames == Usernames \cup {None}

\* variant of UpdateUserQuery without the check of lines 182-187
UpdateUserQueryAnyAccount(p, u, user_id, e, n) ==
    /\ free(p)
    /\ get_current_user(u)
    /\ LET req == [NoLoc EXCEPT !.user = u, !.user_id = user_id, !.email = e, !.username = n]
       IN IF find_user(user_id) = {}
          THEN Reply(p, "update_user", 404, user_id, "not found", req)
          ELSE Goto(p, "uu_email", [req EXCEPT !.old_email = email[user_id],
                                               !.old_username = username[user_id]])
    /\ UNCHANGED <<photos, disk, faults, stored_clean, users, email, username, deleted_ids>>
    /\ UNCHANGED cleanupVars

\* lines 182-195: 403 for another account, 404 when the row is gone, else
\* the row is loaded
UpdateUserQuery(p, u, user_id, e, n) ==
    /\ free(p)
    /\ get_current_user(u)
    /\ LET req == [NoLoc EXCEPT !.user = u, !.user_id = user_id, !.email = e, !.username = n]
       IN IF user_id # u
          THEN Reply(p, "update_user", 403, user_id, "You can only update your own account", req)
          ELSE IF find_user(user_id) = {}
               THEN Reply(p, "update_user", 404, user_id, "not found", req)
               ELSE Goto(p, "uu_email", [req EXCEPT !.old_email = email[user_id],
                                                    !.old_username = username[user_id]])
    /\ UNCHANGED <<photos, disk, faults, stored_clean, users, email, username, deleted_ids>>
    /\ UNCHANGED cleanupVars

\* user_data.email and user_data.email != user.email
sets_email(l) == l.email # None /\ l.email # l.old_email

\* user_data.username and user_data.username != user.username
sets_username(l) == l.username # None /\ l.username # l.old_username

\* lines 197-204: 400 when another row has the new e-mail
UpdateUserEmail(p) ==
    /\ pc[p] = "uu_email"
    /\ IF sets_email(loc[p]) /\ find_by_email(loc[p].email) # {}
       THEN Reply(p, "update_user", 400, loc[p].user_id, "Email already registered", loc[p])
       ELSE Goto(p, "uu_username", loc[p])
    /\ UNCHANGED <<photos, disk, nops, faults, stored_clean, users, email, username, deleted_ids>>
    /\ UNCHANGED cleanupVars

\* lines 206-213: 400 when another row has the new user name
UpdateUserUsername(p) ==
    /\ pc[p] = "uu_username"
    /\ IF sets_username(loc[p]) /\ find_by_username(loc[p].username) # {}
       THEN Reply(p, "update_user", 400, loc[p].user_id, "Username already taken", loc[p])
       ELSE Goto(p, "uu_commit", loc[p])
    /\ UNCHANGED <<photos, disk, nops, faults, stored_clean, users, email, username, deleted_ids>>
    /\ UNCHANGED cleanupVars

\* variant of UpdateUserCommit that writes both columns from the request,
\* supplied or not
UpdateUserCommitAllFields(p) ==
    /\ pc[p] = "uu_commit"
    /\ LET l == loc[p]
           v == l.user_id
       IN /\ NoFault
          /\ email' = [email EXCEPT ![v] = l.email]
          /\ username' = [username EXCEPT ![v] = l.username]
          /\ Reply(p, "update_user", 200, v, "Updated", l)
    /\ UNCHANGED <<photos, disk, nops, stored_clean, users, deleted_ids>>
    /\ UNCHANGED cleanupVars

\* lines 215-226: the UPDATE sets the columns whose value differs from the
\* loaded row, then commit and refresh; a row that is gone makes the UPDATE
\* or the refresh fail; no exception is caught
UpdateUserCommit(p) ==
    /\ pc[p] = "uu_commit"
    /\ LET l == loc[p]
           v == l.user_id
           e == IF sets_email(l) THEN l.email ELSE email[v]
           n == IF sets_username(l) THEN l.username ELSE username[v]
       IN \/ /\ NoFault
             /\ IF find_user(v) = {}
                THEN /\ Reply(p, "update_user", 500, v, "StaleDataError", l)
                     /\ UNCHANGED <<email, username>>
                ELSE IF \/ sets_email(l) /\ find_by_email(l.email) \ {v} # {}
                        \/ sets_username(l) /\ find_by_username(l.username) \ {v} # {}
                     THEN /\ Reply(p, "update_user", 500, v, "IntegrityError", l)
                          /\ UNCHANGED <<email, username>>
                     ELSE /\ email' = [email EXCEPT ![v] = e]
                          /\ username' = [username EXCEPT ![v] = n]
                          /\ Reply(p, "update_user", 200, v, "Updated", l)
          \/ /\ Fault
             /\ Reply(p, "update_user", 500, v, "OperationalError", l)
             /\ UNCHANGED <<email, username>>
    /\ UNCHANGED <<photos, disk, nops, stored_clean, users, deleted_ids>>
    /\ UNCHANGED cleanupVars

\* ------------------------------------------------ get_photo, download_photo

\* a handler that only reads answers in one step
Answer(op, status, id, detail) ==
    /\ reply' = [op |-> op, status |-> status, id |-> id, detail |-> detail,
                 req |-> [NoLoc EXCEPT !.photo_id = id], body |-> {}]
    /\ UNCHANGED <<photos, disk, pc, loc, nops, faults, stored_clean, users, email, username, deleted_ids>>
    /\ UNCHANGED cleanupVars

\* lines 263-276: the row, or 404
GetPhoto(photo_id) ==
    IF find_by_id(photo_id) = {}
    THEN Answer("get", 404, photo_id, "not found")
    ELSE Answer("get", 200, photo_id, "photo")

\* lines 372-405: 404 without a row or without the file, else the file as
\* it is on disk at that moment
DownloadPhoto(photo_id) ==
    LET found == find_by_id(photo_id)
    IN IF found = {}
       THEN Answer("download", 404, photo_id, "not found")
       ELSE LET photo == CHOOSE r \in found : TRUE
            IN IF disk[photo.filename] = "none"
               THEN Answer("download", 404, photo_id, "Photo file not found on disk")
               ELSE Answer("download", 200, photo_id, disk[photo.filename])

\* ------------------------------------------------ view_photo, get_user_photos

\* variant of ViewPhoto without the file_path.exists() test of lines 423-428
ViewPhotoNoExistsCheck(photo_id) ==
    IF find_by_id(photo_id) = {}
    THEN Answer("view", 404, photo_id, "not found")
    ELSE Answer("view", 200, photo_id, "inline")

\* lines 407-435: 404 without a row or without the file, else the file for
\* inline display
ViewPhoto(photo_id) ==
    LET found == find_by_id(photo_id)
    IN IF found = {}
       THEN Answer("view", 404, photo_id, "not found")
       ELSE LET photo == CHOOSE r \in found : TRUE
            IN IF disk[photo.filename] = "none"
               THEN Answer("view", 404, photo_id, "Photo file not found on disk")
               ELSE Answer("view", 200, photo_id, "inline")

\* variant of GetUserPhotos that returns every row of table photos
GetUserPhotosAll(user_id) ==
    /\ IF find_user(user_id) = {}
       THEN reply' = [NoReply EXCEPT !.op = "user_photos", !.status = 404,
                                     !.id = user_id, !.detail = "User not found"]
       ELSE reply' = [NoReply EXCEPT !.op = "user_photos", !.status = 200,
                                     !.id = user_id, !.detail = "photos",
                                     !.body = photos]
    /\ UNCHANGED <<photos, disk, pc, loc, nops, faults, stored_clean, users, email, username, deleted_ids>>
    /\ UNCHANGED cleanupVars

\* lines 494-516: 404 for an unknown user, else user.photos, the rows of
\* table photos with that user_id
GetUserPhotos(user_id) ==
    /\ IF find_user(user_id) = {}
       THEN reply' = [NoReply EXCEPT !.op = "user_photos", !.status = 404,
                                     !.id = user_id, !.detail = "User not found"]
       ELSE reply' = [NoReply EXCEPT !.op = "user_photos", !.status = 200,
                                     !.id = user_id, !.detail = "photos",
                                     !.body = owned_photos(user_id)]
    /\ UNCHANGED <<photos, disk, pc, loc, nops, faults, stored_clean, users, email, username, deleted_ids>>
    /\ UNCHANGED cleanupVars

\* ------------------------------------------------ requests without credentials

\* upload_photo, delete_photo, delete_user and update_user depend on
\* get_current_user: a request without credentials is answered 403 by the
\* dependency and the handler does not run
Unauthenticated ==
    /\ ~get_current_user(Anonymous)
    /\ reply' = [NoReply EXCEPT !.op = "get_current_user", !.status = 403,
                                !.detail = "Not authenticated"]
    /\ UNCHANGED <<photos, disk, pc, loc, nops, faults, stored_clean, users, email, username, deleted_ids>>
    /\ UNCHANGED cleanupVars

\* ----------------------------------------------------------- create_photo

\* the path a client of POST /photos puts in its JSON body
ClientPaths == {filename(sha256(1), ".jpg")}

\* line 243, Photo(**photo_data.model_dump()): schemas.PhotoCreate has no
\* file_hash field, so the column is NULL (NoFile)
created_photo(user_id, f) ==
    [id |-> next_id,
     filename |-> f,
     file_hash |-> NoFile,
     user_id |-> user_id,
     thumbnail_path |-> NoFile,
     width |-> None]

\* variant of not_null_violation for a file_hash column that is nullable
nullable_file_hash(row) == FALSE

\* Photo.file_hash is nullable=False: the INSERT of a row without it fails
not_null_violation(row) == row.file_hash = NoFile

\* lines 228-252: no authentication; 404 for an unknown user_id, else INSERT
\* and commit.  The outcome of the INSERT does not depend on the tables, so
\* the handler answers in one step.
CreatePhoto(user_id, f) ==
    /\ IF find_user(user_id) = {}
       THEN /\ reply' = [NoReply EXCEPT !.op = "create_photo", !.status = 404,
                                        !.detail = "User not found"]
            /\ UNCHANGED photos
       ELSE IF not_null_violation(created_photo(user_id, f))
            THEN /\ reply' = [NoReply EXCEPT !.op = "create_photo", !.status = 500,
                                             !.detail = "IntegrityError"]
                 /\ UNCHANGED photos
            ELSE /\ reply' = [NoReply EXCEPT !.op = "create_photo", !.status = 201,
                                             !.id = next_id, !.detail = "Created"]
                 /\ photos' = photos \cup {created_photo(user_id, f)}
    /\ UNCHANGED <<disk, pc, loc, nops, faults, stored_clean, users, email, username, deleted_ids>>
    /\ UNCHANGED cleanupVars

\* ------------------------------------------------- cleanup_orphaned_files

\* line 19: the hashes of all rows
CleanupQuery ==
    /\ rpc = "idle"
    /\ db_hashes' = {r.file_hash : r \in photos}
    /\ deleted_count' = 0
    /\ rpc' = "glob"
    /\ rout' = None
    /\ reply' = NoReply
    /\ UNCHANGED <<photos, disk, pc, loc, listing, faults, stored_clean, scanned, users, email, username, deleted_ids>>

\* line 27: glob("*") reads the directory when the loop asks for its first entry
CleanupGlob ==
    /\ rpc = "glob"
    /\ listing' = {f \in Files : disk[f] # "none"}
    /\ scanned' = listing'
    /\ rpc' = "loop"
    /\ reply' = NoReply
    /\ UNCHANGED <<photos, disk, pc, loc, db_hashes, deleted_count, rout, nops, faults, stored_clean, users, email, username, deleted_ids>>

\* variant of is_orphan that takes every file for a known one
never_orphan(f) == FALSE

\* line 36: a file is an orphan when its stem is no hash of the database
is_orphan(f) == stem(f) \notin db_hashes

\* lines 28-36: the loop passes over .gitkeep and over every file whose stem
\* is a known hash; these turns touch nothing
skipped(f) == f = GitKeep \/ ~is_orphan(f)

\* lines 27-39: the turn of the loop for an orphan; an exception of unlink
\* ends the script
CleanupFile(f) ==
    /\ rpc = "loop"
    /\ f \in listing
    /\ ~skipped(f)
    /\ reply' = NoReply
    /\ \/ /\ NoFault
          /\ IF disk[f] = "none"
             THEN /\ rpc' = "idle"
                  /\ rout' = "FileNotFoundError"
                  /\ listing' = {}
                  /\ scanned' = {}
                  /\ UNCHANGED <<disk, deleted_count>>
             ELSE /\ disk' = [disk EXCEPT ![f] = "none"]
                  /\ deleted_count' = deleted_count + 1
                  /\ listing' = listing \ {f}
                  /\ UNCHANGED <<rpc, rout, scanned>>
       \/ /\ Fault
          /\ disk[f] # "none"
          /\ rpc' = "idle"
          /\ rout' = "OSError"
          /\ listing' = {}
          /\ scanned' = {}
          /\ UNCHANGED <<disk, deleted_count>>
    /\ UNCHANGED <<photos, pc, loc, db_hashes, nops, stored_clean, users, email, username, deleted_ids>>

\* variant of CleanupDone that also drops the rows whose file is missing
CleanupDoneDropsDangling ==
    /\ rpc = "loop"
    /\ \A f \in listing : skipped(f)
    /\ rpc' = "idle"
    /\ rout' = "done"
    /\ listing' = {}
    /\ scanned' = {}
    /\ reply' = NoReply
    /\ photos' = {r \in photos : disk[r.filename] # "none"}
    /\ UNCHANGED <<disk, pc, loc, db_hashes, deleted_count, nops, faults, stored_clean, users, email, username, deleted_ids>>

\* lines 41-44: nothing is left to delete, the count is printed
CleanupDone ==
    /\ rpc = "loop"
    /\ \A f \in listing : skipped(f)
    /\ rpc' = "idle"
    /\ rout' = "done"
    /\ listing' = {}
    /\ scanned' = {}
    /\ reply' = NoReply
    /\ UNCHANGED <<photos, disk, pc, loc, db_hashes, deleted_count, nops, faults, stored_clean, users, email, username, deleted_ids>>

\* ------------------------------------------------------- specifications

\* a step of a request or of a cleanup run that has already started
Continue ==
    \/ \E p \in Handlers : UploadOpen(p)
    \/ \E p \in Handlers : UploadWrite(p)
    \/ \E p \in Handlers : UploadThumbnail(p)
    \/ \E p \in Handlers : UploadExif(p)
    \/ \E p \in Handlers : UploadCommit(p)
    \/ \E p \in Handlers : DeleteCommit(p)
    \/ \E p \in Handlers : DeleteUnlink(p)
    \/ \E p \in Handlers : DeleteUserCommit(p)
    \/ CleanupGlob
    \/ \E f \in Files : CleanupFile(f)
    \/ CleanupDone

\* the start of a request or of a cleanup run, while fewer than limit
\* operations have started
Start(limit) ==
    /\ StartOp(limit)
    /\ \/ \E p \in Handlers, u \in Users, b \in Contents, n \in UploadNames : UploadCheck(p, u, b, n)
       \/ \E p \in Handlers, u \in Users, i \in RequestIds : DeleteQuery(p, u, i)
       \/ \E p \in Handlers, u \in Users, i \in Users : DeleteUserQuery(p, u, i)
       \/ CleanupQuery

\* a request that is answered in one step
Read ==
    \/ \E i \in RequestIds : GetPhoto(i)
    \/ \E i \in RequestIds : DownloadPhoto(i)
    \/ \E i \in Users, f \in ClientPaths : CreatePhoto(i, f)
    \/ Unauthenticated

\* the handlers that change the table or the directory and the cleanup
\* script run concurrently
Next == Start(MaxOps) \/ Continue

Spec == Init /\ [][Next]_vars

\* one operation at a time: the next one starts when nothing is in progress
SeqNext == (Quiescent /\ (Start(MaxSeqOps) \/ Read)) \/ Continue

SeqSpec == Init /\ [][SeqNext]_vars

\* the requests on the accounts, next to uploads: register and update_user
\* run concurrently with delete_user and upload_photo
UserStart(limit) ==
    /\ StartOp(limit)
    /\ \/ \E p \in Handlers, u \in Users, b \in Contents, n \in UploadNames : UploadCheck(p, u, b, n)
       \/ \E p \in Handlers, u \in Users, i \in Users : DeleteUserQuery(p, u, i)
       \/ \E p \in Handlers, e \in Emails, n \in Usernames : RegisterEmail(p, e, n)
       \/ \E p \in Handlers, u \in Users, i \in Users, e \in UpdateEmails, n \in UpdateUsernames :
              UpdateUserQuery(p, u, i, e, n)

UserContinue ==
    \/ \E p \in Handlers : UploadOpen(p)
    \/ \E p \in Handlers : UploadWrite(p)
    \/ \E p \in Handlers : UploadThumbnail(p)
    \/ \E p \in Handlers : UploadExif(p)
    \/ \E p \in Handlers : UploadCommit(p)
    \/ \E p \in Handlers : DeleteUserCommit(p)
    \/ \E p \in Handlers : RegisterUsername(p)
    \/ \E p \in Handlers : RegisterCommit(p)
    \/ \E p \in Handlers : UpdateUserEmail(p)
    \/ \E p \in Handlers : UpdateUserUsername(p)
    \/ \E p \in Handlers : UpdateUserCommit(p)

UserNext == UserStart(MaxUserOps) \/ UserContinue

UserSpec == Init /\ [][UserNext]_vars

\* view_photo and get_user_photos answer in one step too
ReadPhotos ==
    \/ \E i \in RequestIds : ViewPhoto(i)
    \/ \E i \in Users : GetUserPhotos(i)

\* the requests that are answered in one step arrive at any moment, next to
\* the operations that change the table and the directory
ReadNext == Start(MaxReadOps) \/ Continue \/ Read \/ ReadPhotos

ReadSpec == Init /\ [][ReadNext]_vars

\* cleanup_orphans.py is started again and again (a scheduled job), next to
\* a bounded number of requests that arrive one at a time
LiveStart(limit) ==
    /\ \A p \in Handlers : pc[p] = "idle"
    /\ StartOp(limit)
    /\ \/ \E p \in Handlers, u \in Users, b \in Contents, n \in UploadNames : UploadCheck(p, u, b, n)
       \/ \E p \in Handlers, u \in Users, i \in RequestIds : DeleteQuery(p, u, i)
       \/ \E p \in Handlers, u \in Users, i \in Users : DeleteUserQuery(p, u, i)

\* one more run of the script
CleanupRerun == CleanupQuery /\ UNCHANGED nops

LiveNext == LiveStart(MaxLiveOps) \/ Continue \/ CleanupRerun

\* the script is started whenever it is not running, and a started run goes
\* on to its end; nothing is assumed about the requests
LiveSpec ==
    /\ Init
    /\ [][LiveNext]_vars
    /\ WF_vars(CleanupRerun)
    /\ WF_vars(CleanupGlob)
    /\ WF_vars(\E f \in Files : CleanupFile(f))
    /\ WF_vars(CleanupDone)

\* ----------------------------------------------------------------- claims

\* the hash of the request that was just answered
replied_hash == reply.req.file_hash

C2_NoOrphanAfterCatalogFailure ==
    (reply.op = "upload" /\ reply.req.written /\ reply.detail = "OperationalError") =>
        /\ reply.status = 500
        /\ blobs(replied_hash) = {}
        /\ find_by_hash(replied_hash) = {}

\* C3: every row's file is on disk, in every state of every interleaving.
C3_NoDanglingRecord == \A r \in photos : disk[r.filename] # "none"

\* C4: a row enters the table only in the commit step of a store whose own
\* write of that row's file has completed.
C4_WriteBeforeInsert ==
    [][\A r \in photos' \ photos :
          \E p \in Handlers : /\ pc[p] = "u_commit"
                              /\ loc[p].written
                              /\ loc[p].file_path = r.filename
                              /\ loc[p].file_hash = r.file_hash]_vars

\* a store has just committed its row
C4_Witness ==
    /\ reply.op = "upload"
    /\ reply.status = 201
    /\ reply.req.written
    /\ find_by_id(reply.id) # {}

\* C5: the store that loses the race at the unique index is answered as a
\* duplicate (400) naming the winning row, exactly one row of the hash exists,
\* and the file it wrote, when it is not the winner's, is removed.
C5_RaceLoserIsDuplicate ==
    (reply.op = "upload" /\ reply.detail = "IntegrityError") =>
        /\ Cardinality(find_by_hash(replied_hash)) = 1
        /\ reply.status = 400
        /\ \A r \in find_by_hash(replied_hash) :
               /\ reply.id = r.id
               /\ r.filename # reply.req.file_path => disk[reply.req.file_path] = "none"

\* C6: no two rows have the same file_hash.
C6_UniqueDigest ==
    \A r1 \in photos : \A r2 \in photos : r1.file_hash = r2.file_hash => r1 = r2

\* two stores of the same bytes raced and the index refused the second insert
C6_Witness ==
    /\ reply.op = "upload"
    /\ reply.detail = "IntegrityError"
    /\ find_by_hash(replied_hash) # {}

\* C7: the step that answers a store with 400 changes neither the table nor
\* the directory, and the row it names is a row of that hash, whoever owns it.
C7_RejectedStoreHasNoEffect ==
    [][(reply'.op = "upload" /\ reply'.status = 400) =>
          /\ photos' = photos
          /\ disk' = disk
          /\ \E r \in photos : r.id = reply'.id /\ r.file_hash = reply'.req.file_hash]_vars

\* a store by another principal than the owner has just been refused
C7_Witness ==
    /\ reply.op = "upload"
    /\ reply.status = 400
    /\ \E r \in photos : r.id = reply.id /\ r.user_id # reply.req.user

\* C8: when open or write of the file fails, that step ends the store with a
\* server error and leaves the table as it was; the store inserts nothing.
C8_WriteFailureLeavesCatalog ==
    [][\A p \in Handlers :
          (pc[p] \in {"u_open", "u_write"} /\ pc'[p] # pc[p] /\ faults' # faults) =>
              /\ pc'[p] = "idle"
              /\ reply'.op = "upload"
              /\ reply'.status = 500
              /\ reply'.detail = "OSError"
              /\ photos' = photos]_vars

\* a store has just been aborted by a failed write
C8_Witness ==
    /\ reply.op = "upload"
    /\ reply.status = 500
    /\ reply.detail = "OSError"
    /\ disk[reply.req.file_path] = "partial"

\* the store of handler p has written its file and not yet committed its row
written_in_flight(p) == pc[p] \in {"u_thumb", "u_exif", "u_commit"} /\ loc[p].written

\* C9: the cleanup never deletes the file of a store in progress whose file
\* is written and whose row is not yet committed.
C9_CleanupSparesInFlightBlob ==
    [][deleted_count' = deleted_count + 1 =>
          \A p \in Handlers :
              written_in_flight(p) => disk'[loc[p].file_path] = disk[loc[p].file_path]]_vars

\* the hash a file of the directory is named after
digest_of(f) == SubSeq(f, 1, 2)

\* the cleanup loop has nothing left to delete and is about to print its count
CleanupFinished == rpc = "loop" /\ \A f \in listing : skipped(f)

\* the listed files whose hash has no row
orphans_scanned == {f \in scanned \ {GitKeep} : find_by_hash(digest_of(f)) = {}}

\* C10: a cleanup run with no request in progress deletes exactly the listed
\* files whose hash has no row, keeps every listed file whose hash has one,
\* and counts exactly the orphans as deleted.
C10_CleanupConvergence ==
    CleanupFinished =>
        /\ deleted_count = Cardinality(orphans_scanned)
        /\ \A f \in scanned \ {GitKeep} : (disk[f] = "none") <=> (f \in orphans_scanned)

\* C11: the step that answers delete_user with 204 removes every row the
\* user owned and leaves none of their files on disk.
C11_CascadeDelete ==
    [][(reply'.op = "delete_user" /\ reply'.status = 204) =>
          \A r \in owned_photos(reply'.req.user) :
              /\ r \notin photos'
              /\ disk'[r.filename] = "none"]_vars

\* C12: a delete request for a row of another principal is answered 403 in a
\* step that changes neither the table nor the directory, the row is still
\* there, and no delete by another principal than the owner gets past the check.
C12_OwnershipIsolation ==
    [][/\ (reply'.op = "delete" /\ reply'.status \in {403, 404}) =>
             (reply'.status = 403 <=>
                  \E r \in photos : r.id = reply'.id /\ r.user_id # reply'.req.user)
       /\ (reply'.op = "delete" /\ reply'.status = 403) =>
             /\ photos' = photos
             /\ disk' = disk
             /\ find_by_id(reply'.id) \cap photos' # {}
       /\ \A p \in Handlers :
             (pc[p] = "idle" /\ pc'[p] = "d_commit") =>
                 \A r \in find_by_id(loc'[p].photo_id) : r.user_id = loc'[p].user]_vars

\* another principal's delete has just been refused; row and file are there
C12_Witness ==
    /\ reply.op = "delete"
    /\ reply.status = 403
    /\ \E r \in photos : r.id = reply.id /\ r.user_id # reply.req.user /\ disk[r.filename] = "data"

\* C13: every refusal of a delete has the status and detail of the answer for
\* an id that does not exist, so a refusal does not tell whether a row of
\* another principal exists.
C13_ConstantShapeRejection ==
    (reply.op = "delete" /\ reply.status \in {403, 404}) =>
        (reply.status = 404 /\ reply.detail = "not found")

\* C14: delete_photo removes the row in a step that touches no file, comes to
\* the unlink only from that step, and ends with 204 and the table as it is
\* whether or not the unlink fails; after a failed unlink the file is still
\* on disk.
C14_RowDeletedBeforeBlob ==
    [][/\ \A p \in Handlers :
             /\ (pc[p] = "d_commit" /\ pc'[p] # "d_commit") => disk' = disk
             /\ (pc'[p] = "d_unlink" /\ pc[p] # "d_unlink") =>
                    /\ pc[p] = "d_commit"
                    /\ find_by_id(loc[p].photo_id) \cap photos' = {}
             /\ (pc[p] = "d_unlink" /\ pc'[p] # "d_unlink") =>
                    /\ reply'.op = "delete"
                    /\ reply'.status = 204
                    /\ photos' = photos
       /\ (reply'.op = "delete" /\ reply'.detail = "Failed to delete file") =>
             /\ disk' = disk
             /\ disk'[reply'.req.file_path] # "none"]_vars

\* a delete has just succeeded although its unlink failed: the row is gone
\* and the file is left
C14_Witness ==
    /\ reply.op = "delete"
    /\ reply.status = 204
    /\ reply.detail = "Failed to delete file"
    /\ find_by_id(reply.id) = {}
    /\ disk[reply.req.file_path] = "data"

\* C15: when the owner's delete has succeeded with the file removed, the row
\* and the file are gone, and every later lookup of that id is answered 404.
C15_DeletedStaysNotFound ==
    /\ (reply.op = "delete" /\ reply.status = 204 /\ reply.detail = "Deleted") =>
           /\ find_by_id(reply.id) = {}
           /\ disk[reply.req.file_path] = "none"
    /\ (reply.op = "get" /\ reply.id \in deleted_ids) => reply.status = 404

\* C16: the thumbnail and EXIF steps of a store never end the request and
\* never touch the table, whatever the bytes; a store of bytes that are no
\* image is created with no thumbnail reference and no derived field.
C16_DerivationBestEffort ==
    [][/\ \A p \in Handlers :
             (pc[p] \in {"u_thumb", "u_exif"} /\ pc'[p] # pc[p]) =>
                 /\ pc'[p] \in {"u_exif", "u_commit"}
                 /\ reply' = NoReply
                 /\ photos' = photos
       /\ (reply'.op = "upload" /\ reply'.status = 201 /\ ~IsImage(reply'.req.contents)) =>
             \E r \in photos' \ photos :
                 /\ r.id = reply'.id
                 /\ r.thumbnail_path = NoFile
                 /\ r.width = None]_vars

\* a store of bytes that are no image has just been created
C16_Witness ==
    /\ reply.op = "upload"
    /\ reply.status = 201
    /\ ~IsImage(reply.req.contents)
    /\ \E r \in photos : r.id = reply.id /\ r.thumbnail_path = NoFile /\ r.width = None

\* C17: whenever download_photo serves a file, the file holds the complete
\* bytes of its digest: no reader gets an empty or partly written file,
\* also while another store of the same digest is writing.
C17_AtomicBlobWrite ==
    (reply.op = "download" /\ reply.status = 200) => reply.detail = "data"

\* C18: at most one file per content digest is on disk, whatever the
\* extensions of the uploaded file names.
C18_OneBlobPerDigest == \A h \in Hashes : Cardinality(blobs(h)) <= 1

\* C19: no step of cleanup_orphaned_files changes the photos or the users
\* table, and none creates a file: a row whose file is missing is neither
\* deleted nor repaired.
C19_CleanupLeavesCatalog ==
    [][(rpc' # rpc \/ listing' # listing \/ deleted_count' # deleted_count) =>
          /\ photos' = photos
          /\ users' = users
          /\ \A f \in Files : disk[f] = "none" => disk'[f] = "none"]_vars

\* a cleanup run has ended that deleted nothing, and a row whose file is
\* missing is still there
C19_Witness ==
    /\ rout = "done"
    /\ deleted_count = 0
    /\ \E r \in photos : disk[r.filename] = "none"

\* C20: the unlink step of a delete always answers 204; when the file is
\* already absent it changes nothing, and otherwise it leaves the file
\* absent unless the unlink fails, so a second blob delete finds the state
\* the first one left and keeps it.
C20_BlobDeleteIdempotent ==
    [][\A p \in Handlers :
          (pc[p] = "d_unlink" /\ pc'[p] # "d_unlink") =>
              /\ reply'.op = "delete"
              /\ reply'.status = 204
              /\ disk[loc[p].file_path] = "none" =>
                     (disk' = disk /\ reply'.detail = "File not found on disk")
              /\ faults' = faults => disk'[loc[p].file_path] = "none"
              /\ \A f \in Files \ {loc[p].file_path} : disk'[f] = disk[f]]_vars

\* a delete of a row whose file was already absent has just succeeded
C20_Witness ==
    /\ reply.op = "delete"
    /\ reply.status = 204
    /\ reply.detail = "File not found on disk"
    /\ disk[reply.req.file_path] = "none"

C22_SingleOwner ==
    [][/\ \A p \in Handlers : (pc[p] = "idle" /\ pc'[p] = "u_open") => loc'[p].user \in users
       /\ \A p \in Handlers : (pc[p] = "u_commit" /\ pc'[p] = "idle") =>
              /\ reply'.req.user = loc[p].user
              /\ \A r \in photos' \ photos : r.user_id = loc[p].user /\ r.user_id \in Users
       /\ \A r \in photos, q \in photos' : q.id = r.id => q.user_id = r.user_id]_vars

\* an upload has just stored a row for its user while the other user owns
\* a row too
C22_Witness ==
    /\ reply.op = "upload" /\ reply.status = 201
    /\ \E r \in photos : r.id = reply.id /\ r.user_id = reply.req.user
    /\ \E r \in photos : r.user_id # reply.req.user

C24_AccountIsolation ==
    [][/\ (reply'.op \in {"delete_user", "update_user"} /\ reply'.id # reply'.req.user) =>
              /\ reply'.status = 403
              /\ users' = users /\ email' = email /\ username' = username
              /\ photos' = photos /\ disk' = disk
       /\ \A p \in Handlers : (pc[p] = "idle" /\ pc'[p] = "uu_email") =>
              loc'[p].user_id = loc'[p].user
       /\ \A p \in Handlers : (pc[p] = "uu_commit" /\ pc'[p] = "idle") =>
              \A v \in AllUsers \ {loc[p].user} :
                  email'[v] = email[v] /\ username'[v] = username[v]
       /\ \A p \in Handlers : (pc[p] = "du_commit" /\ pc'[p] = "idle") =>
              /\ users \ users' \subseteq {loc[p].user}
              /\ photos \ photos' \subseteq owned_photos(loc[p].user)]_vars

\* an update of another user's account was refused; that user has a row in
\* photos and its file
C24_Witness ==
    /\ reply.op = "update_user" /\ reply.status = 403
    /\ reply.id \in users /\ reply.id # reply.req.user
    /\ reply.req.email # None
    /\ \E r \in photos : r.user_id = reply.id /\ disk[r.filename] = "data"

\* C25: no two rows of table users share an e-mail or a user name, and a
\* register or update_user request whose e-mail or user name another row
\* holds when the request ends is answered 400 and changes no users row.
C25_UniqueAccounts ==
    [][/\ \A v, w \in users' :
              v # w => email'[v] # email'[w] /\ username'[v] # username'[w]
       /\ (/\ reply'.op \in {"register", "update_user"}
           /\ reply'.status \notin {403, 404}
           /\ \E v \in users \ {reply'.req.user} :
                  \/ reply'.req.email # None /\ email[v] = reply'.req.email
                  \/ reply'.req.username # None /\ username[v] = reply'.req.username)
          => /\ reply'.status = 400
             /\ users' = users /\ email' = email /\ username' = username]_vars

\* C26: a turn of the cleanup loop removes a file only when no row of photos
\* names it as its filename or as its thumbnail_path.
C26_CleanupDeletesOnlyUnreferenced ==
    [][\A f \in Files :
          (rpc = "loop" /\ deleted_count' = deleted_count + 1
             /\ disk[f] # "none" /\ disk'[f] = "none")
          => \A r \in photos : r.filename # f /\ r.thumbnail_path # f]_vars

\* C27: the unlink step of delete_photo never removes the file of a row
\* that is in table photos.
C27_DeleteSparesNewStore ==
    [][\A p \in Handlers :
          (pc[p] = "d_unlink" /\ pc'[p] = "idle")
          => \A r \in photos : disk[r.filename] # "none" => disk'[r.filename] # "none"]_vars

C30_StoreEndsAllOrNothing ==
    (reply.op = "upload" /\ reply.req.written) =>
        \/ find_by_hash(replied_hash) # {} /\ disk[reply.req.file_path] # "none"
        \/ find_by_hash(replied_hash) = {} /\ disk[reply.req.file_path] = "none"

\* a file of the directory, other than .gitkeep, whose hash no row has
orphan_file(f) == disk[f] # "none" /\ find_by_hash(digest_of(f)) = {}

\* C29: when cleanup_orphans.py is run again and again, every file whose
\* hash no row has is eventually gone from the directory, unless a row with
\* its hash is committed.
C29_OrphansEventuallyRemoved ==
    \A f \in Files \ {GitKeep} :
        orphan_file(f) ~> (disk[f] = "none" \/ find_by_hash(digest_of(f)) # {})

\* a run of the script has removed the file and the thumbnail that a failed
\* upload or a deleted account left behind, and nothing but .gitkeep is left
C29_Witness ==
    /\ rpc = "idle" /\ rout = "done" /\ deleted_count = 2
    /\ photos = {}
    /\ \A f \in Files \ {GitKeep} : disk[f] = "none"

\* C31: the thumbnail step keeps the thumbnail path exactly when it has
\* written the thumbnail file; the row an upload commits carries the path
\* the thumbnail step left, and a row that carries a path has its thumbnail
\* file on disk when it is committed.
C31_ThumbnailReferenceIsReal ==
    [][\A p \in Handlers :
          /\ (pc[p] = "u_thumb" /\ pc'[p] = "u_exif") =>
                 (loc'[p].thumbnail_path # NoFile <=>
                      /\ readable_image(p) /\ faults' = faults
                      /\ disk'[loc[p].thumbnail_path] = "data")
          /\ (pc[p] = "u_commit" /\ pc'[p] = "idle") =>
                 \A r \in photos' \ photos :
                     /\ r.thumbnail_path = loc[p].thumbnail_path
                     /\ r.thumbnail_path # NoFile => disk'[r.thumbnail_path] # "none"]_vars

\* C32: when delete_photo has answered 204 after removing the file, no file
\* named after the hash of the deleted row is left in the directory, the
\* thumbnail included.
C32_DeleteRemovesDerivedFiles ==
    (reply.op = "delete" /\ reply.status = 204 /\ reply.detail = "Deleted") =>
        \A f \in Files \ {GitKeep} :
            digest_of(f) = reply.req.file_hash => disk[f] = "none"

\* C33: an upload is refused as a duplicate only while a row with its hash
\* is in table photos, and the row a successful upload creates has an id
\* that no deleted row had.
C33_DeleteReleasesDigest ==
    /\ (reply.op = "upload" /\ reply.status = 400) => find_by_hash(replied_hash) # {}
    /\ (reply.op = "upload" /\ reply.status = 201) => reply.id \notin deleted_ids

\* C34: every step of an upload request either ends the request or goes on
\* to the next statement of upload_photo, so no statement runs twice; a step
\* that fails either ends the request with 500 or is the thumbnail step,
\* which goes on without a thumbnail path.
C34_NoRetry ==
    [][\A p \in Handlers :
          /\ (pc[p] # "idle" /\ pc'[p] = pc[p]) => loc'[p] = loc[p]
          /\ (pc[p] \in {"u_open", "u_write", "u_thumb", "u_exif", "u_commit"} /\ pc'[p] # pc[p]) =>
                 /\ \/ pc'[p] = "idle"
                    \/ /\ pc'[p] \in {"u_write", "u_thumb", "u_exif", "u_commit"}
                       /\ upload_position(pc'[p]) = upload_position(pc[p]) + 1
                 /\ faults' # faults =>
                        \/ pc'[p] = "idle" /\ reply'.op = "upload" /\ reply'.status = 500
                        \/ /\ pc[p] = "u_thumb" /\ pc'[p] = "u_exif"
                           /\ loc'[p].thumbnail_path = NoFile]_vars

\* the write of an upload failed: the request was answered 500 and the file
\* it had opened was left as it was
C34_Witness ==
    /\ reply.op = "upload" /\ reply.status = 500 /\ reply.detail = "OSError"
    /\ ~reply.req.written
    /\ disk[reply.req.file_path] = "partial"
    /\ \A p \in Handlers : pc[p] = "idle"

\* C35: download_photo and view_photo answer 200 exactly when the row with
\* the id exists and its file is on disk, and 404 otherwise; the request
\* changes no row, no file and no handler.
C35_ReadMissingIsNotFound ==
    [][reply'.op \in {"download", "view"} =>
          /\ reply'.status \in {200, 404}
          /\ reply'.status = 200 <=>
                 \E r \in photos : r.id = reply'.id /\ disk[r.filename] # "none"
          /\ photos' = photos /\ disk' = disk /\ users' = users
          /\ pc' = pc /\ loc' = loc]_vars

\* view_photo was asked for a row whose file is not on disk and said 404
C35_Witness ==
    /\ reply.op = "view" /\ reply.status = 404
    /\ \E r \in photos : r.id = reply.id /\ disk[r.filename] = "none"

\* C36: get_user_photos answers 404 exactly when no users row has the id,
\* and otherwise 200 with exactly the rows of table photos whose user_id is
\* the id; the request changes nothing.
C36_ListByOwner ==
    [][reply'.op = "user_photos" =>
          /\ reply'.status \in {200, 404}
          /\ reply'.status = 404 <=> reply'.id \notin users
          /\ reply'.status = 200 => reply'.body = {r \in photos : r.user_id = reply'.id}
          /\ photos' = photos /\ disk' = disk /\ users' = users]_vars

\* a user's photos were listed while the other user owns a row too
C36_Witness ==
    /\ reply.op = "user_photos" /\ reply.status = 200
    /\ reply.body # {}
    /\ \E r \in photos : r.user_id # reply.id

\* C37: the commit of update_user leaves a column the request did not
\* supply as it was, changes no other user's columns, no users row's
\* existence, no photos row and no file; an update answered 400, 403 or 404
\* changes nothing.
C37_UpdateOnlySupplied ==
    [][/\ \A p \in Handlers :
            (pc[p] = "uu_commit" /\ pc'[p] = "idle") =>
                /\ loc[p].email = None => email' = email
                /\ loc[p].username = None => username' = username
                /\ \A v \in AllUsers \ {loc[p].user_id} :
                       email'[v] = email[v] /\ username'[v] = username[v]
                /\ users' = users /\ photos' = photos /\ disk' = disk
       /\ (reply'.op = "update_user" /\ reply'.status \in {400, 403, 404}) =>
              /\ email' = email /\ username' = username
              /\ users' = users /\ photos' = photos /\ disk' = disk]_vars

\* an update that carried only a user name was committed for a user who
\* owns a photos row
C37_Witness ==
    /\ reply.op = "update_user" /\ reply.status = 200
    /\ reply.req.email = None /\ reply.req.username # None
    /\ reply.req.username # reply.req.old_username
    /\ username[reply.id] = reply.req.username
    /\ email[reply.id] = reply.req.old_email
    /\ \E r \in photos : r.user_id = reply.id

====
